---- MODULE Spec2Model ----
(***************************************************************************)
(* Model of the PPPoE identity-rotation program (src/src/main.rs).        *)
(*                                                                         *)
(* One process run: main starts the browser driver, run_automation parses  *)
(* the embedded credential list, asks the router which identity is active, *)
(* probes usage, searches a replacement in cyclic order, switches or       *)
(* disables, notifies, and main stops the driver and reports the result.   *)
(*                                                                         *)
(* Strings are sequences of one-character strings, so that split and trim  *)
(* are computed as the code computes them.  Collaborator results           *)
(* (Result<T>) are records: Ok(v) or Err(e).                               *)
(***************************************************************************)
EXTENDS Integers, Sequences, FiniteSets, TLC

VARIABLES
    pc,                     \* position of the main thread in main/run_automation
    chromedriver_process,   \* "none", "running", "stopped"
    split_iter,             \* the iterator pppoe_credentials_str.split(',')
    pppoe_id_pass,          \* HashMap<String, String>
    pppoe_ids,              \* Vec<(String, String)>
    current_running_id,
    index,                  \* enumerate() position of the matching loop
    current_usage,
    found_available_id,
    checked_count,
    next_pppoe_id_name,
    next_pppoe_id_password,
    apply_outcome,          \* the value bound by the match on password_change_router
    result,                 \* what run_automation returned, NotReturned before
    exit_code,              \* process status: -1 while running
    calls,                  \* collaborator calls issued so far, in order
    threads,                \* notification threads spawned and not yet run
    shown,                  \* notifications the threads have shown
    run,                    \* 1: the run; 2: the same cycle run again for comparison
    first                   \* what the first run did, kept for the comparison

vars == <<pc, chromedriver_process, split_iter, pppoe_id_pass, pppoe_ids,
          current_running_id, index, current_usage, found_available_id,
          checked_count, next_pppoe_id_name, next_pppoe_id_password,
          apply_outcome, result, exit_code, calls, threads, shown, run, first>>

(***************************************************************************)
(* Bounds of the model.                                                    *)
(***************************************************************************)
MaxPairs == 3       \* comma-separated pairs in the credential list

(***************************************************************************)
(* Program constants.                                                      *)
(***************************************************************************)
SWITCH_THRESHOLD == 10000
AVAILABLE_THRESHOLD == 10000
DISABLE_THRESHOLD == 11000
DISABLED_EXCEEDED_LIMIT == <<"D", "I", "S", "A", "B", "L", "E", "D">>

\* Result<T>: Ok(v), or Err(e) with the error it carries
Ok(v) == [ok |-> TRUE, val |-> v]
Err(e) == [ok |-> FALSE, err |-> e]

\* Result<()> of run_automation, and its value while the function runs
OkUnit == [ok |-> TRUE]
NotReturned == [returned |-> FALSE]

\* the errors of a run, by where they come from
InvalidCredentialsFormat == "Invalid PPPOE_CREDENTIALS format"
InspectError == "which_pppoe_id_running failed"
ProbeError == "get_total_use failed"
ApplyError == "password_change_router failed"

(***************************************************************************)
(* String helpers: str::trim and str::split.                               *)
(***************************************************************************)
RECURSIVE TrimStart(_)
TrimStart(s) ==
    IF s # <<>> /\ Head(s) = " " THEN TrimStart(Tail(s)) ELSE s

RECURSIVE TrimEnd(_)
TrimEnd(s) ==
    IF s # <<>> /\ s[Len(s)] = " " THEN TrimEnd(SubSeq(s, 1, Len(s) - 1)) ELSE s

Trim(s) == TrimEnd(TrimStart(s))

\* position of the first separator in s, 0 when there is none
FirstSep(s, sep) ==
    IF \E i \in 1..Len(s) : s[i] = sep
    THEN CHOOSE i \in 1..Len(s) : s[i] = sep /\ \A j \in 1..(i - 1) : s[j] # sep
    ELSE 0

RECURSIVE Split(_, _)
Split(s, sep) ==
    LET i == FirstSep(s, sep)
    IN  IF i = 0 THEN <<s>>
        ELSE <<SubSeq(s, 1, i - 1)>> \o Split(SubSeq(s, i + 1, Len(s)), sep)

\* The lazy iterator of split(','): what is left of the string, and whether
\* the last piece has been handed out.
SplitIter(s) == [rest |-> s, finished |-> FALSE]

SplitNextItem(it) ==
    LET i == FirstSep(it.rest, ",")
    IN  IF i = 0 THEN it.rest ELSE SubSeq(it.rest, 1, i - 1)

SplitNextIter(it) ==
    LET i == FirstSep(it.rest, ",")
    IN  IF i = 0 THEN [rest |-> <<>>, finished |-> TRUE]
        ELSE [rest |-> SubSeq(it.rest, i + 1, Len(it.rest)), finished |-> FALSE]

(***************************************************************************)
(* HashMap helpers.                                                        *)
(***************************************************************************)
EmptyMap == <<>>

\* an insert that keeps the value a key already has
MapInsertKeepsFirst(m, k, v) ==
    [n \in (DOMAIN m) \cup {k} |-> IF n \in DOMAIN m THEN m[n] ELSE v]

MapInsert(m, k, v) ==
    [n \in (DOMAIN m) \cup {k} |-> IF n = k THEN v ELSE m[n]]

\* into_iter().collect(): the entries in some order the hasher fixes
Orderings(m) ==
    {o \in [1..Cardinality(DOMAIN m) -> (DOMAIN m) \X {m[n] : n \in DOMAIN m}] :
        /\ \A i \in DOMAIN o : o[i][2] = m[o[i][1]]
        /\ \A i, j \in DOMAIN o : i # j => o[i][1] # o[j][1]}

(***************************************************************************)
(* Inputs of a run.                                                        *)
(***************************************************************************)
\* pairs a credential list is made of: well formed ones (one of them with
\* blanks around it, one repeating a name), and malformed ones
WellFormedPairs ==
    { <<"a", ":", "x">>,
      <<" ", "b", ":", "y", " ">>,
      <<"c", ":", "z">>,
      <<"d", ":", "w">>,
      <<"a", ":", "z">> }

MalformedPairs ==
    { <<"c">>,
      <<"a", ":", "x", ":", "y">>,
      <<>> }

PairStrings == WellFormedPairs \cup MalformedPairs

RECURSIVE Join(_)
Join(ps) ==
    IF Len(ps) = 1 THEN ps[1] ELSE ps[1] \o <<",">> \o Join(Tail(ps))

RECURSIVE PairLists(_)
PairLists(n) ==
    IF n = 0 THEN {<<>>}
    ELSE LET shorter == PairLists(n - 1)
         IN  shorter \cup {Append(l, p) : l \in {s \in shorter : Len(s) = n - 1},
                                          p \in PairStrings}

\* values PPPOE_CREDENTIALS may have been built with
CredentialStrings == {Join(l) : l \in PairLists(MaxPairs) \ {<<>>}}

\* identities the router may report
RouterIds == { <<"a">>, <<"b">>, <<"c">>, <<"d">>, <<"e">> }

\* minutes the usage page may show
UsageReadings == {9000, 10000, 11000, 11001}

\* what the collaborators may return, by their signatures; Ok(FALSE) is in
\* the Result<bool> of password_change_router and has its own match arm,
\* though the body of password_change_router never produces it
InspectResults == {Ok(id) : id \in RouterIds} \cup {Err(InspectError)}
ProbeResults == {Ok(u) : u \in UsageReadings} \cup {Err(ProbeError)}
ApplyResults == {Ok(TRUE), Ok(FALSE), Err(ApplyError)}

(***************************************************************************)
(* Collaborator calls, as they are recorded in the order they are issued.  *)
(***************************************************************************)
InspectCall(res) == [op |-> "inspect", res |-> res]
ProbeCall(name, pass, res) ==
    [op |-> "probe", name |-> name, secret |-> pass, res |-> res]
ApplyCall(name, pass, res) ==
    [op |-> "apply", name |-> name, secret |-> pass, res |-> res]
NotifyCall(title, body) == [op |-> "notify", title |-> title, body |-> body]

CallsOf(log, op) == SelectSeq(log, LAMBDA c : c.op = op)
Probes == CallsOf(calls, "probe")
Applies == CallsOf(calls, "apply")
Notifies == CallsOf(calls, "notify")
Inspects == CallsOf(calls, "inspect")

(***************************************************************************)
(* What the collaborators answer.  In the run, anything their contract     *)
(* allows.  When the cycle is run again for comparison, what they answered  *)
(* in the first run.  In the second run on the same candidate sequence     *)
(* (run = 2) a candidate whose probe failed may now report a usage above   *)
(* AVAILABLE_THRESHOLD instead.  In the run on a reordered sequence        *)
(* (run = 3) an identity the first run did not probe reports anything, and *)
(* so does password_change_router.                                         *)
(***************************************************************************)
Recorded(op) ==
    {first.calls[i].res : i \in {j \in DOMAIN first.calls : first.calls[j].op = op}}

RecordedProbe(name) ==
    {first.calls[i].res : i \in {j \in DOMAIN first.calls :
        first.calls[j].op = "probe" /\ first.calls[j].name = name}}

OverAvailable == {Ok(u) : u \in {v \in UsageReadings : v > AVAILABLE_THRESHOLD}}

InspectOutcomes ==
    IF run = 1 \/ Recorded("inspect") = {} THEN InspectResults
    ELSE Recorded("inspect")

ProbeCurrentOutcomes(name) ==
    IF run = 1 \/ RecordedProbe(name) = {} THEN ProbeResults
    ELSE RecordedProbe(name)

ProbeNextOutcomes(name) ==
    IF run = 1 \/ RecordedProbe(name) = {} THEN ProbeResults
    ELSE IF run = 2 /\ \E r \in RecordedProbe(name) : ~r.ok
         THEN RecordedProbe(name) \cup OverAvailable
         ELSE RecordedProbe(name)

ApplyOutcomes ==
    IF run # 2 \/ Recorded("apply") = {} THEN ApplyResults
    ELSE Recorded("apply")

\* send_notification: spawn the thread that shows the notification, then
\* sleep; the thread is detached and runs on its own
send_notification(title, body) ==
    /\ calls' = Append(calls, NotifyCall(title, body))
    /\ threads' = threads \cup {NotifyCall(title, body)}

Init ==
    /\ pc = "start"
    /\ chromedriver_process = "none"
    /\ split_iter \in {SplitIter(s) : s \in CredentialStrings}
    /\ pppoe_id_pass = EmptyMap
    /\ pppoe_ids = <<>>
    /\ current_running_id = <<>>
    /\ index = 0
    /\ current_usage = 0
    /\ found_available_id = FALSE
    /\ checked_count = 0
    /\ next_pppoe_id_name = <<>>
    /\ next_pppoe_id_password = <<>>
    /\ apply_outcome = Ok(FALSE)
    /\ result = NotReturned
    /\ exit_code = -1
    /\ calls = <<>>
    /\ threads = {}
    /\ shown = {}
    /\ run = 1
    /\ first = NotReturned

(***************************************************************************)
(* main                                                                    *)
(***************************************************************************)
\* start_chromedriver()?: spawn succeeds, or main returns the error
StartChromedriver ==
    /\ pc = "start"
    /\ \E spawned \in BOOLEAN :
        IF spawned
        THEN /\ chromedriver_process' = "running"
             /\ pc' = "parse"
             /\ UNCHANGED exit_code
        ELSE /\ chromedriver_process' = "none"
             /\ pc' = "exited"
             /\ exit_code' = 1
    /\ UNCHANGED <<run, first>>
    /\ UNCHANGED <<split_iter, pppoe_id_pass, pppoe_ids, current_running_id,
                   index, current_usage, found_available_id, checked_count,
                   next_pppoe_id_name, next_pppoe_id_password, apply_outcome,
                   result, calls, threads, shown>>

\* main with run_automation().await? : the driver left running on an error
StopChromedriverUnlessError ==
    /\ pc = "stop"
    /\ chromedriver_process' = IF result.ok THEN "stopped" ELSE "running"
    /\ pc' = "exit"
    /\ UNCHANGED <<run, first>>
    /\ UNCHANGED <<split_iter, pppoe_id_pass, pppoe_ids, current_running_id,
                   index, current_usage, found_available_id, checked_count,
                   next_pppoe_id_name, next_pppoe_id_password, apply_outcome,
                   result, exit_code, calls, threads, shown>>

\* stop_chromedriver(chromedriver_process)
StopChromedriver ==
    /\ pc = "stop"
    /\ chromedriver_process' = "stopped"
    /\ pc' = "exit"
    /\ UNCHANGED <<run, first>>
    /\ UNCHANGED <<split_iter, pppoe_id_pass, pppoe_ids, current_running_id,
                   index, current_usage, found_available_id, checked_count,
                   next_pppoe_id_name, next_pppoe_id_password, apply_outcome,
                   result, exit_code, calls, threads, shown>>

\* main dropping the result of run_automation
ExitStatusIgnored(res) == 0

\* the status the runtime reports for what main returns
ExitStatus(res) == IF res.ok THEN 0 ELSE 1

\* main returns result: the process ends, and with it every thread
Exit ==
    /\ pc = "exit"
    /\ exit_code' = ExitStatus(result)
    /\ pc' = "exited"
    /\ threads' = {}
    /\ UNCHANGED <<run, first>>
    /\ UNCHANGED <<chromedriver_process, split_iter, pppoe_id_pass, pppoe_ids,
                   current_running_id, index, current_usage, found_available_id,
                   checked_count, next_pppoe_id_name, next_pppoe_id_password,
                   apply_outcome, result, calls, shown>>

\* the body of a notification thread
ShowNotification ==
    /\ pc # "exited"
    /\ \E n \in threads :
        /\ threads' = threads \ {n}
        /\ shown' = shown \cup {n}
    /\ UNCHANGED <<run, first>>
    /\ UNCHANGED <<pc, chromedriver_process, split_iter, pppoe_id_pass, pppoe_ids,
                   current_running_id, index, current_usage, found_available_id,
                   checked_count, next_pppoe_id_name, next_pppoe_id_password,
                   apply_outcome, result, exit_code, calls>>

(***************************************************************************)
(* run_automation: parsing the credential list                             *)
(***************************************************************************)
\* the parsing loop skipping a malformed pair instead of bailing out
ParsePairSkipsMalformed ==
    /\ pc = "parse"
    /\ ~split_iter.finished
    /\ LET pair == SplitNextItem(split_iter)
           parts == Split(Trim(pair), ":")
       IN  /\ split_iter' = SplitNextIter(split_iter)
           /\ IF Len(parts) = 2
              THEN pppoe_id_pass' = MapInsert(pppoe_id_pass, parts[1], parts[2])
              ELSE UNCHANGED pppoe_id_pass
           /\ UNCHANGED <<pc, result>>
    /\ UNCHANGED <<run, first>>
    /\ UNCHANGED <<chromedriver_process, pppoe_ids, current_running_id, index,
                   current_usage, found_available_id, checked_count,
                   next_pppoe_id_name, next_pppoe_id_password, apply_outcome,
                   exit_code, calls, threads, shown>>

\* one iteration of  for pair in pppoe_credentials_str.split(',')
ParsePair ==
    /\ pc = "parse"
    /\ ~split_iter.finished
    /\ LET pair == SplitNextItem(split_iter)
           parts == Split(Trim(pair), ":")
       IN  /\ split_iter' = SplitNextIter(split_iter)
           /\ IF Len(parts) = 2
              THEN /\ pppoe_id_pass' = MapInsert(pppoe_id_pass, parts[1], parts[2])
                   /\ UNCHANGED <<pc, result>>
              ELSE /\ result' = Err(InvalidCredentialsFormat)
                   /\ pc' = "stop"
                   /\ UNCHANGED pppoe_id_pass
    /\ UNCHANGED <<run, first>>
    /\ UNCHANGED <<chromedriver_process, pppoe_ids, current_running_id, index,
                   current_usage, found_available_id, checked_count,
                   next_pppoe_id_name, next_pppoe_id_password, apply_outcome,
                   exit_code, calls, threads, shown>>

\* the iterator is exhausted: the map is moved into the vector
CollectIds ==
    /\ pc = "parse"
    /\ split_iter.finished
    /\ pppoe_ids' \in Orderings(pppoe_id_pass)
    /\ pppoe_id_pass' = EmptyMap
    /\ pc' = "inspect"
    /\ UNCHANGED <<run, first>>
    /\ UNCHANGED <<chromedriver_process, split_iter, current_running_id, index,
                   current_usage, found_available_id, checked_count,
                   next_pppoe_id_name, next_pppoe_id_password, apply_outcome,
                   result, exit_code, calls, threads, shown>>

(***************************************************************************)
(* run_automation: the active identity                                     *)
(***************************************************************************)
\* which_pppoe_id_running(..).await?
InspectRunningId ==
    /\ pc = "inspect"
    /\ \E res \in InspectOutcomes :
        /\ calls' = Append(calls, InspectCall(res))
        /\ IF res.ok
           THEN /\ current_running_id' = res.val
                /\ index' = 0
                /\ pc' = "match"
                /\ UNCHANGED result
           ELSE /\ result' = res
                /\ pc' = "stop"
                /\ UNCHANGED <<current_running_id, index>>
    /\ UNCHANGED <<run, first>>
    /\ UNCHANGED <<chromedriver_process, split_iter, pppoe_id_pass, pppoe_ids,
                   current_usage, found_available_id, checked_count,
                   next_pppoe_id_name, next_pppoe_id_password, apply_outcome,
                   exit_code, threads, shown>>

\* the matching loop with an error for an identity that is no candidate
MatchLoopUnknownIsError ==
    /\ pc = "match"
    /\ IF index < Len(pppoe_ids)
       THEN /\ current_running_id # pppoe_ids[index + 1][1]
            /\ index' = index + 1
            /\ UNCHANGED <<pc, result>>
       ELSE /\ result' = Err(InspectError)
            /\ pc' = "stop"
            /\ UNCHANGED index
    /\ UNCHANGED <<run, first>>
    /\ UNCHANGED <<chromedriver_process, split_iter, pppoe_id_pass, pppoe_ids,
                   current_running_id, current_usage, found_available_id,
                   checked_count, next_pppoe_id_name, next_pppoe_id_password,
                   apply_outcome, exit_code, calls, threads, shown>>

\* one iteration of  for (index, (name, password)) in pppoe_ids.iter().enumerate()
\* whose test fails, or the end of the loop: fall through to Ok(())
MatchLoop ==
    /\ pc = "match"
    /\ IF index < Len(pppoe_ids)
       THEN /\ current_running_id # pppoe_ids[index + 1][1]
            /\ index' = index + 1
            /\ UNCHANGED <<pc, result>>
       ELSE /\ result' = OkUnit
            /\ pc' = "stop"
            /\ UNCHANGED index
    /\ UNCHANGED <<run, first>>
    /\ UNCHANGED <<chromedriver_process, split_iter, pppoe_id_pass, pppoe_ids,
                   current_running_id, current_usage, found_available_id,
                   checked_count, next_pppoe_id_name, next_pppoe_id_password,
                   apply_outcome, exit_code, calls, threads, shown>>

\* the active probe with its error caught and the usage taken as 0
ProbeCurrentErrorCaught ==
    /\ pc = "match"
    /\ index < Len(pppoe_ids)
    /\ current_running_id = pppoe_ids[index + 1][1]
    /\ \E res \in ProbeCurrentOutcomes(pppoe_ids[index + 1][1]) :
        /\ calls' = Append(calls,
                ProbeCall(pppoe_ids[index + 1][1], pppoe_ids[index + 1][2], res))
        /\ current_usage' = IF res.ok THEN res.val ELSE 0
        /\ pc' = "threshold"
        /\ UNCHANGED result
    /\ UNCHANGED <<run, first>>
    /\ UNCHANGED <<chromedriver_process, split_iter, pppoe_id_pass, pppoe_ids,
                   current_running_id, index, found_available_id, checked_count,
                   next_pppoe_id_name, next_pppoe_id_password, apply_outcome,
                   exit_code, threads, shown>>

\* the iteration whose test succeeds: get_total_use(name, password).await?
ProbeCurrent ==
    /\ pc = "match"
    /\ index < Len(pppoe_ids)
    /\ current_running_id = pppoe_ids[index + 1][1]
    /\ \E res \in ProbeCurrentOutcomes(pppoe_ids[index + 1][1]) :
        /\ calls' = Append(calls,
                ProbeCall(pppoe_ids[index + 1][1], pppoe_ids[index + 1][2], res))
        /\ IF res.ok
           THEN /\ current_usage' = res.val
                /\ pc' = "threshold"
                /\ UNCHANGED result
           ELSE /\ result' = res
                /\ pc' = "stop"
                /\ UNCHANGED current_usage
    /\ UNCHANGED <<run, first>>
    /\ UNCHANGED <<chromedriver_process, split_iter, pppoe_id_pass, pppoe_ids,
                   current_running_id, index, found_available_id, checked_count,
                   next_pppoe_id_name, next_pppoe_id_password, apply_outcome,
                   exit_code, threads, shown>>

(***************************************************************************)
(* run_automation: the threshold policy                                    *)
(***************************************************************************)
\* the entry the matching loop stopped at
pppoe_id_name == pppoe_ids[index + 1][1]
pppoe_id_password == pppoe_ids[index + 1][2]

\* the switch test with >= in place of >
ExceedsSwitchInclusive(usage) == usage >= SWITCH_THRESHOLD

\* if current_usage > SWITCH_THRESHOLD
ExceedsSwitch(usage) == usage > SWITCH_THRESHOLD

\* if next_usage <= AVAILABLE_THRESHOLD
IsAvailable(usage) == usage <= AVAILABLE_THRESHOLD

\* the disable test with >= in place of >
ExceedsDisableInclusive(usage) == usage >= DISABLE_THRESHOLD

\* if current_usage > DISABLE_THRESHOLD
ExceedsDisable(usage) == usage > DISABLE_THRESHOLD

\* the loop bound without the - 1 that leaves the active identity out
SearchContinuesWholeList(count, len) == count < len

\* while checked_count < pppoe_ids.len() - 1
SearchContinues(count, len) == count < len - 1

\* the next index without the + 1 that skips the active identity
NextIndexFromActive(idx, count, len) == (idx + count) % len

\* the search stopping at the end of the sequence instead of wrapping
NextIndexNoWrap(idx, count, len) ==
    IF idx + 1 + count < len THEN idx + 1 + count ELSE idx

\* (index + 1 + checked_count) % pppoe_ids.len()
NextIndex(idx, count, len) == (idx + 1 + count) % len

\* the usage is within the limit: notify, break
WithinLimit ==
    /\ pc = "threshold"
    /\ ~ExceedsSwitch(current_usage)
    /\ send_notification("WiFi Status OK",
            [id |-> pppoe_id_name, usage |-> current_usage])
    /\ pc' = "ret"
    /\ UNCHANGED <<run, first>>
    /\ UNCHANGED <<chromedriver_process, split_iter, pppoe_id_pass, pppoe_ids,
                   current_running_id, index, current_usage, found_available_id,
                   checked_count, next_pppoe_id_name, next_pppoe_id_password,
                   apply_outcome, result, exit_code, shown>>

\* the user told that the limit is exceeded before the search has started
ExceededLimitNotifiedFirst ==
    /\ pc = "threshold"
    /\ ExceedsSwitch(current_usage)
    /\ send_notification("No WiFi IDs Available",
                         [current |-> pppoe_id_name, usage |-> current_usage])
    /\ found_available_id' = FALSE
    /\ checked_count' = 0
    /\ next_pppoe_id_name' = <<>>
    /\ next_pppoe_id_password' = <<>>
    /\ pc' = "search"
    /\ UNCHANGED <<run, first>>
    /\ UNCHANGED <<chromedriver_process, split_iter, pppoe_id_pass, pppoe_ids,
                   current_running_id, index, current_usage, apply_outcome,
                   result, exit_code, shown>>

\* the usage exceeds the limit: set up the search
ExceededLimit ==
    /\ pc = "threshold"
    /\ ExceedsSwitch(current_usage)
    /\ found_available_id' = FALSE
    /\ checked_count' = 0
    /\ next_pppoe_id_name' = <<>>
    /\ next_pppoe_id_password' = <<>>
    /\ pc' = "search"
    /\ UNCHANGED <<run, first>>
    /\ UNCHANGED <<chromedriver_process, split_iter, pppoe_id_pass, pppoe_ids,
                   current_running_id, index, current_usage, apply_outcome,
                   result, exit_code, calls, threads, shown>>

\* the search with the probe's error propagated by ? instead of matched
ProbeNextErrorPropagated ==
    /\ pc = "search"
    /\ SearchContinues(checked_count, Len(pppoe_ids))
    /\ LET next_index == NextIndex(index, checked_count, Len(pppoe_ids))
           next_id == pppoe_ids[next_index + 1][1]
           next_pass == pppoe_ids[next_index + 1][2]
       IN  \E res \in ProbeNextOutcomes(next_id) :
            /\ calls' = Append(calls, ProbeCall(next_id, next_pass, res))
            /\ IF ~res.ok
               THEN /\ result' = res
                    /\ pc' = "stop"
                    /\ UNCHANGED <<found_available_id, next_pppoe_id_name,
                                   next_pppoe_id_password, checked_count>>
               ELSE IF IsAvailable(res.val)
               THEN /\ found_available_id' = TRUE
                    /\ next_pppoe_id_name' = next_id
                    /\ next_pppoe_id_password' = next_pass
                    /\ pc' = "searched"
                    /\ UNCHANGED <<checked_count, result>>
               ELSE /\ checked_count' = checked_count + 1
                    /\ UNCHANGED <<found_available_id, next_pppoe_id_name,
                                   next_pppoe_id_password, pc, result>>
    /\ UNCHANGED <<run, first>>
    /\ UNCHANGED <<chromedriver_process, split_iter, pppoe_id_pass, pppoe_ids,
                   current_running_id, index, current_usage, apply_outcome,
                   exit_code, threads, shown>>

\* the search whose Err arm leaves checked_count as it was
ProbeNextErrorNotCounted ==
    /\ pc = "search"
    /\ SearchContinues(checked_count, Len(pppoe_ids))
    /\ LET next_index == NextIndex(index, checked_count, Len(pppoe_ids))
           next_id == pppoe_ids[next_index + 1][1]
           next_pass == pppoe_ids[next_index + 1][2]
       IN  \E res \in ProbeNextOutcomes(next_id) :
            /\ calls' = Append(calls, ProbeCall(next_id, next_pass, res))
            /\ IF res.ok /\ IsAvailable(res.val)
               THEN /\ found_available_id' = TRUE
                    /\ next_pppoe_id_name' = next_id
                    /\ next_pppoe_id_password' = next_pass
                    /\ pc' = "searched"
                    /\ UNCHANGED checked_count
               ELSE /\ checked_count' = IF res.ok THEN checked_count + 1
                                        ELSE checked_count
                    /\ UNCHANGED <<found_available_id, next_pppoe_id_name,
                                   next_pppoe_id_password, pc>>
    /\ UNCHANGED <<run, first>>
    /\ UNCHANGED <<chromedriver_process, split_iter, pppoe_id_pass, pppoe_ids,
                   current_running_id, index, current_usage, apply_outcome,
                   result, exit_code, threads, shown>>

\* one iteration of the while loop: probe the next identity in cyclic order
ProbeNext ==
    /\ pc = "search"
    /\ SearchContinues(checked_count, Len(pppoe_ids))
    /\ LET next_index == NextIndex(index, checked_count, Len(pppoe_ids))
           next_id == pppoe_ids[next_index + 1][1]
           next_pass == pppoe_ids[next_index + 1][2]
       IN  \E res \in ProbeNextOutcomes(next_id) :
            /\ calls' = Append(calls, ProbeCall(next_id, next_pass, res))
            /\ IF res.ok /\ IsAvailable(res.val)
               THEN /\ found_available_id' = TRUE
                    /\ next_pppoe_id_name' = next_id
                    /\ next_pppoe_id_password' = next_pass
                    /\ pc' = "searched"
                    /\ UNCHANGED checked_count
               ELSE /\ checked_count' = checked_count + 1
                    /\ UNCHANGED <<found_available_id, next_pppoe_id_name,
                                   next_pppoe_id_password, pc>>
    /\ UNCHANGED <<run, first>>
    /\ UNCHANGED <<chromedriver_process, split_iter, pppoe_id_pass, pppoe_ids,
                   current_running_id, index, current_usage, apply_outcome,
                   result, exit_code, threads, shown>>

\* the while condition fails: every other identity has been checked
SearchExhausted ==
    /\ pc = "search"
    /\ ~SearchContinues(checked_count, Len(pppoe_ids))
    /\ pc' = "searched"
    /\ UNCHANGED <<run, first>>
    /\ UNCHANGED <<chromedriver_process, split_iter, pppoe_id_pass, pppoe_ids,
                   current_running_id, index, current_usage, found_available_id,
                   checked_count, next_pppoe_id_name, next_pppoe_id_password,
                   apply_outcome, result, exit_code, calls, threads, shown>>

(***************************************************************************)
(* run_automation: carrying out the decision                               *)
(***************************************************************************)
\* the disable call made with the identity's own password
DisableSecretConfigured(configured) == configured

\* the password handed to the router to disable the connection
DisableSecret(configured) == DISABLED_EXCEEDED_LIMIT

\* the switch with its success notified before the router has answered
SwitchApplyNotifiedFirst ==
    /\ pc = "searched"
    /\ found_available_id
    /\ \E res \in ApplyOutcomes :
        LET n == NotifyCall("WiFi ID Switched",
                    [from |-> pppoe_id_name, to |-> next_pppoe_id_name,
                     usage |-> current_usage])
        IN  /\ calls' = calls \o
                    <<n, ApplyCall(next_pppoe_id_name, next_pppoe_id_password, res)>>
            /\ threads' = threads \cup {n}
            /\ apply_outcome' = res
    /\ pc' = "ret"
    /\ UNCHANGED <<run, first>>
    /\ UNCHANGED <<chromedriver_process, split_iter, pppoe_id_pass, pppoe_ids,
                   current_running_id, index, current_usage, found_available_id,
                   checked_count, next_pppoe_id_name, next_pppoe_id_password,
                   result, exit_code, shown>>

\* the switch given the secret of the active identity
SwitchApplyActiveSecret ==
    /\ pc = "searched"
    /\ found_available_id
    /\ \E res \in ApplyOutcomes :
        /\ calls' = Append(calls,
                ApplyCall(next_pppoe_id_name, pppoe_id_password, res))
        /\ apply_outcome' = res
    /\ pc' = "switched"
    /\ UNCHANGED <<run, first>>
    /\ UNCHANGED <<chromedriver_process, split_iter, pppoe_id_pass, pppoe_ids,
                   current_running_id, index, current_usage, found_available_id,
                   checked_count, next_pppoe_id_name, next_pppoe_id_password,
                   result, exit_code, threads, shown>>

\* password_change_router(.., next_pppoe_id_name, next_pppoe_id_password)
SwitchApply ==
    /\ pc = "searched"
    /\ found_available_id
    /\ \E res \in ApplyOutcomes :
        /\ calls' = Append(calls,
                ApplyCall(next_pppoe_id_name, next_pppoe_id_password, res))
        /\ apply_outcome' = res
    /\ pc' = "switched"
    /\ UNCHANGED <<run, first>>
    /\ UNCHANGED <<chromedriver_process, split_iter, pppoe_id_pass, pppoe_ids,
                   current_running_id, index, current_usage, found_available_id,
                   checked_count, next_pppoe_id_name, next_pppoe_id_password,
                   result, exit_code, threads, shown>>

\* the switch titles with the error arm folded into the failure arm
SwitchTitleErrorAsFailure(outcome) ==
    IF outcome = Ok(TRUE) THEN "WiFi ID Switched" ELSE "WiFi Switch Failed"

\* the title each arm of the match on the switch outcome notifies with
SwitchTitle(outcome) ==
    IF outcome = Ok(TRUE) THEN "WiFi ID Switched"
    ELSE IF outcome = Ok(FALSE) THEN "WiFi Switch Failed"
    ELSE "WiFi Switch Error"

\* the switch tried again after an outcome other than Ok(true)
SwitchNotifyThenRetry ==
    /\ pc = "switched"
    /\ send_notification(SwitchTitle(apply_outcome),
            IF apply_outcome = Ok(TRUE)
            THEN [from |-> pppoe_id_name, to |-> next_pppoe_id_name,
                  usage |-> current_usage]
            ELSE IF apply_outcome = Ok(FALSE)
            THEN [from |-> pppoe_id_name, to |-> next_pppoe_id_name]
            ELSE [error |-> apply_outcome.err])
    /\ pc' = IF apply_outcome = Ok(TRUE) THEN "ret" ELSE "searched"
    /\ UNCHANGED <<run, first>>
    /\ UNCHANGED <<chromedriver_process, split_iter, pppoe_id_pass, pppoe_ids,
                   current_running_id, index, current_usage, found_available_id,
                   checked_count, next_pppoe_id_name, next_pppoe_id_password,
                   apply_outcome, result, exit_code, shown>>

\* the three arms of the match on the switch outcome
SwitchNotify ==
    /\ pc = "switched"
    /\ send_notification(SwitchTitle(apply_outcome),
            IF apply_outcome = Ok(TRUE)
            THEN [from |-> pppoe_id_name, to |-> next_pppoe_id_name,
                  usage |-> current_usage]
            ELSE IF apply_outcome = Ok(FALSE)
            THEN [from |-> pppoe_id_name, to |-> next_pppoe_id_name]
            ELSE [error |-> apply_outcome.err])
    /\ pc' = "ret"
    /\ UNCHANGED <<run, first>>
    /\ UNCHANGED <<chromedriver_process, split_iter, pppoe_id_pass, pppoe_ids,
                   current_running_id, index, current_usage, found_available_id,
                   checked_count, next_pppoe_id_name, next_pppoe_id_password,
                   apply_outcome, result, exit_code, shown>>

\* password_change_router(.., pppoe_id_name, "DISABLED_EXCEEDED_LIMIT")
DisableApply ==
    /\ pc = "searched"
    /\ ~found_available_id
    /\ ExceedsDisable(current_usage)
    /\ \E res \in ApplyOutcomes :
        /\ calls' = Append(calls,
                ApplyCall(pppoe_id_name, DisableSecret(pppoe_id_password), res))
        /\ apply_outcome' = res
    /\ pc' = "disabled"
    /\ UNCHANGED <<run, first>>
    /\ UNCHANGED <<chromedriver_process, split_iter, pppoe_id_pass, pppoe_ids,
                   current_running_id, index, current_usage, found_available_id,
                   checked_count, next_pppoe_id_name, next_pppoe_id_password,
                   result, exit_code, threads, shown>>

\* every disable outcome notified as a success
DisableTitleAlwaysDisabled(outcome) == "PPPoE Connection Disabled"

\* the title each arm of the match on the disable outcome notifies with
DisableTitle(outcome) ==
    IF outcome = Ok(TRUE) THEN "PPPoE Connection Disabled"
    ELSE "Failed to Disable PPPoE"

\* the disable outcome with its error propagated by ? instead of matched
DisableNotifyErrorPropagated ==
    /\ pc = "disabled"
    /\ IF apply_outcome.ok
       THEN /\ send_notification(DisableTitle(apply_outcome),
                    IF apply_outcome = Ok(TRUE)
                    THEN [id |-> pppoe_id_name, usage |-> current_usage]
                    ELSE [usage |-> current_usage])
            /\ pc' = "ret"
            /\ UNCHANGED result
       ELSE /\ result' = apply_outcome
            /\ pc' = "stop"
            /\ UNCHANGED <<calls, threads>>
    /\ UNCHANGED <<run, first>>
    /\ UNCHANGED <<chromedriver_process, split_iter, pppoe_id_pass, pppoe_ids,
                   current_running_id, index, current_usage, found_available_id,
                   checked_count, next_pppoe_id_name, next_pppoe_id_password,
                   apply_outcome, exit_code, shown>>

\* the two arms of the match on the disable outcome
DisableNotify ==
    /\ pc = "disabled"
    /\ send_notification(DisableTitle(apply_outcome),
            IF apply_outcome = Ok(TRUE)
            THEN [id |-> pppoe_id_name, usage |-> current_usage]
            ELSE [usage |-> current_usage])
    /\ pc' = "ret"
    /\ UNCHANGED <<run, first>>
    /\ UNCHANGED <<chromedriver_process, split_iter, pppoe_id_pass, pppoe_ids,
                   current_running_id, index, current_usage, found_available_id,
                   checked_count, next_pppoe_id_name, next_pppoe_id_password,
                   apply_outcome, result, exit_code, shown>>

\* no identity is available and the usage is within the disable limit
NoIdsAvailable ==
    /\ pc = "searched"
    /\ ~found_available_id
    /\ ~ExceedsDisable(current_usage)
    /\ send_notification("No WiFi IDs Available",
            [id |-> pppoe_id_name, usage |-> current_usage])
    /\ pc' = "ret"
    /\ UNCHANGED <<run, first>>
    /\ UNCHANGED <<chromedriver_process, split_iter, pppoe_id_pass, pppoe_ids,
                   current_running_id, index, current_usage, found_available_id,
                   checked_count, next_pppoe_id_name, next_pppoe_id_password,
                   apply_outcome, result, exit_code, shown>>

\* break out of the matching loop; Ok(())
ReturnOk ==
    /\ pc = "ret"
    /\ result' = OkUnit
    /\ pc' = "stop"
    /\ UNCHANGED <<run, first>>
    /\ UNCHANGED <<chromedriver_process, split_iter, pppoe_id_pass, pppoe_ids,
                   current_running_id, index, current_usage, found_available_id,
                   checked_count, next_pppoe_id_name, next_pppoe_id_password,
                   apply_outcome, exit_code, calls, threads, shown>>

Next ==
    \/ StartChromedriver
    \/ ParsePair
    \/ CollectIds
    \/ InspectRunningId
    \/ MatchLoop
    \/ ProbeCurrent
    \/ WithinLimit
    \/ ExceededLimit
    \/ ProbeNext
    \/ SearchExhausted
    \/ SwitchApply
    \/ SwitchNotify
    \/ DisableApply
    \/ DisableNotify
    \/ NoIdsAvailable
    \/ ReturnOk
    \/ StopChromedriver
    \/ Exit
    \/ ShowNotification

Spec == Init /\ [][Next]_vars

(***************************************************************************)
(* Progress: every collaborator call returns, so the main thread takes its *)
(* next step whenever it has one.  Nothing is assumed of the detached      *)
(* notification threads.                                                   *)
(***************************************************************************)
MainThread ==
    \/ StartChromedriver
    \/ ParsePair
    \/ CollectIds
    \/ InspectRunningId
    \/ MatchLoop
    \/ ProbeCurrent
    \/ WithinLimit
    \/ ExceededLimit
    \/ ProbeNext
    \/ SearchExhausted
    \/ SwitchApply
    \/ SwitchNotify
    \/ DisableApply
    \/ DisableNotify
    \/ NoIdsAvailable
    \/ ReturnOk
    \/ StopChromedriver
    \/ Exit

SpecFair == Spec /\ WF_vars(MainThread)

(***************************************************************************)
(* The comparison run: once a run in which a candidate's probe failed has  *)
(* ended, the cycle is run again from the inspector query on the same      *)
(* candidate sequence, the collaborators answering as ProbeNextOutcomes    *)
(* and the other Outcomes say.                                             *)
(***************************************************************************)
SecondaryProbes(log) == Tail(CallsOf(log, "probe"))

RunAgain ==
    /\ pc = "exited"
    /\ run = 1
    /\ Inspects # <<>>
    /\ Probes # <<>>
    /\ \E i \in DOMAIN SecondaryProbes(calls) : ~SecondaryProbes(calls)[i].res.ok
    /\ run' = 2
    /\ first' = [calls |-> calls, result |-> result, exit_code |-> exit_code]
    /\ pc' = "inspect"
    /\ chromedriver_process' = "running"
    /\ current_running_id' = <<>>
    /\ index' = 0
    /\ current_usage' = 0
    /\ found_available_id' = FALSE
    /\ checked_count' = 0
    /\ next_pppoe_id_name' = <<>>
    /\ next_pppoe_id_password' = <<>>
    /\ apply_outcome' = Ok(FALSE)
    /\ result' = NotReturned
    /\ exit_code' = -1
    /\ calls' = <<>>
    /\ threads' = {}
    /\ shown' = {}
    /\ UNCHANGED <<split_iter, pppoe_id_pass, pppoe_ids>>



NextCompare == Next \/ RunAgain

SpecCompare == Init /\ [][NextCompare]_vars

(***************************************************************************)
(* The reordered run: once a run that queried the inspector has ended, the *)
(* cycle is run again from the inspector query on another ordering of the  *)
(* same candidate mapping, with the same active identity and the same      *)
(* probe result for every identity the first run probed.                   *)
(***************************************************************************)
\* the mapping a candidate sequence was collected from
AsMap(ids) ==
    [name \in {ids[i][1] : i \in DOMAIN ids}
        |-> ids[CHOOSE i \in DOMAIN ids : ids[i][1] = name][2]]

RunReordered ==
    /\ pc = "exited"
    /\ run = 1
    /\ Inspects # <<>>
    /\ run' = 3
    /\ first' = [calls |-> calls, result |-> result, exit_code |-> exit_code]
    /\ pppoe_ids' \in Orderings(AsMap(pppoe_ids)) \ {pppoe_ids}
    /\ pc' = "inspect"
    /\ chromedriver_process' = "running"
    /\ current_running_id' = <<>>
    /\ index' = 0
    /\ current_usage' = 0
    /\ found_available_id' = FALSE
    /\ checked_count' = 0
    /\ next_pppoe_id_name' = <<>>
    /\ next_pppoe_id_password' = <<>>
    /\ apply_outcome' = Ok(FALSE)
    /\ result' = NotReturned
    /\ exit_code' = -1
    /\ calls' = <<>>
    /\ threads' = {}
    /\ shown' = {}
    /\ UNCHANGED <<split_iter, pppoe_id_pass>>

NextReorder == Next \/ RunReordered

SpecReorder == Init /\ [][NextReorder]_vars

(***************************************************************************)
(* Vocabulary of the properties, read off the recorded calls.              *)
(***************************************************************************)
\* a probe that returned a usage within AVAILABLE_THRESHOLD
Qualifies(c) == c.res.ok /\ c.res.val <= AVAILABLE_THRESHOLD

\* the active identity's probe returned a usage
ActiveUsageKnown == Probes # <<>> /\ Probes[1].res.ok
ActiveUsage == Probes[1].res.val

\* no probe issued during the search qualified
NoneQualified == \A k \in 2..Len(Probes) : ~Qualifies(Probes[k])

\* 0-based position of the active identity in the candidate sequence
ActiveInPool == \E i \in DOMAIN pppoe_ids : pppoe_ids[i][1] = current_running_id
ActiveIndex ==
    (CHOOSE i \in DOMAIN pppoe_ids : pppoe_ids[i][1] = current_running_id) - 1

\* the candidate k places after the active one, wrapping around
CyclicAfter(k) == pppoe_ids[((ActiveIndex + k) % Len(pppoe_ids)) + 1]

\* the search is over and what it decided has been applied
DecisionTaken ==
    /\ pc \in {"switched", "disabled", "ret", "stop", "exit", "exited"}
    /\ ActiveUsageKnown

ConfiguredSecrets == {pppoe_ids[i][2] : i \in DOMAIN pppoe_ids}

(***************************************************************************)
(* C1: when the active identity's usage exceeds SWITCH_THRESHOLD and a     *)
(* probed candidate returns a usage within AVAILABLE_THRESHOLD, the        *)
(* probes of the search follow the cyclic order that starts right after    *)
(* the active identity, the qualifying probe is the last probe issued,     *)
(* every probe before it did not qualify, and apply_identity is called     *)
(* with that candidate.  When no probe qualified, every other candidate    *)
(* has been probed, so a qualifying candidate is never passed over.        *)
(***************************************************************************)
C1_FirstFitSwitch ==
    /\ (/\ ActiveUsageKnown
        /\ ActiveUsage > SWITCH_THRESHOLD
        /\ \E k \in 2..Len(Probes) : Qualifies(Probes[k]))
       => LET n == Len(Probes)
          IN  /\ n <= Len(pppoe_ids)
              /\ \A k \in 2..n :
                    /\ Probes[k].name = CyclicAfter(k - 1)[1]
                    /\ Probes[k].secret = CyclicAfter(k - 1)[2]
              /\ \A k \in 2..(n - 1) : ~Qualifies(Probes[k])
              /\ Qualifies(Probes[n])
              /\ pc \in {"searched", "switched", "ret", "stop", "exit", "exited"}
              /\ \/ pc = "searched" /\ Applies = <<>>
                 \/ /\ Len(Applies) = 1
                    /\ Applies[1].name = Probes[n].name
                    /\ Applies[1].secret = Probes[n].secret
    /\ (/\ DecisionTaken
        /\ ActiveUsage > SWITCH_THRESHOLD
        /\ NoneQualified)
       => /\ Len(Probes) = Len(pppoe_ids)
          /\ \A k \in 2..Len(Probes) : Probes[k].name = CyclicAfter(k - 1)[1]

\* three candidates, the active one last: the search wraps around to the
\* first, which qualifies and is switched to; the second is never probed
C1_Witness ==
    /\ pc = "exited"
    /\ Len(pppoe_ids) = 3
    /\ current_running_id = pppoe_ids[3][1]
    /\ Len(Probes) = 2
    /\ Probes[2].name = pppoe_ids[1][1]
    /\ Probes[2].res = Ok(AVAILABLE_THRESHOLD)
    /\ Len(Applies) = 1
    /\ Applies[1].name = pppoe_ids[1][1]

(***************************************************************************)
(* C2: when the active identity's usage is at most SWITCH_THRESHOLD, the   *)
(* only probe is the active identity's, apply_identity is not called, the  *)
(* search is never entered, and exactly one "WiFi Status OK" notification  *)
(* with the identity and its usage is sent.                                *)
(***************************************************************************)
C2_NoActionWithinLimit ==
    (ActiveUsageKnown /\ ActiveUsage <= SWITCH_THRESHOLD)
    => /\ Len(Probes) = 1
       /\ Probes[1].name = current_running_id
       /\ Applies = <<>>
       /\ pc \in {"threshold", "ret", "stop", "exit", "exited"}
       /\ IF pc = "threshold"
          THEN Notifies = <<>>
          ELSE Notifies = <<NotifyCall("WiFi Status OK",
                    [id |-> current_running_id, usage |-> ActiveUsage])>>
       /\ (result # NotReturned => result = OkUnit)

\* a finished run whose active usage was exactly the threshold
C2_Witness ==
    /\ pc = "exited"
    /\ ActiveUsageKnown
    /\ ActiveUsage = SWITCH_THRESHOLD
    /\ Len(pppoe_ids) > 1
    /\ Len(Notifies) = 1
    /\ Notifies[1].title = "WiFi Status OK"

C4_NoIdentityAvailable ==
    (/\ DecisionTaken
     /\ NoneQualified
     /\ ActiveUsage > SWITCH_THRESHOLD
     /\ ActiveUsage <= DISABLE_THRESHOLD)
    => /\ Applies = <<>>
       /\ Len(Probes) = Len(pppoe_ids)
       /\ Notifies = <<NotifyCall("No WiFi IDs Available",
                [id |-> current_running_id, usage |-> ActiveUsage])>>

\* a finished run whose active usage was exactly DISABLE_THRESHOLD
C4_Witness ==
    /\ pc = "exited"
    /\ Len(pppoe_ids) = 3
    /\ ActiveUsageKnown
    /\ ActiveUsage = DISABLE_THRESHOLD
    /\ Applies = <<>>
    /\ Len(Notifies) = 1
    /\ Notifies[1].title = "No WiFi IDs Available"

(***************************************************************************)
(* C5 (checked under SpecCompare): a failed probe of a candidate does not  *)
(* end the cycle: run_automation still returns Ok, and unless the          *)
(* candidate was the last one the search goes on to the next.  A second    *)
(* run of the cycle in which such a candidate reports a usage above        *)
(* AVAILABLE_THRESHOLD instead issues the same calls with the same         *)
(* arguments and results, ends with the same result and the same status.   *)
(***************************************************************************)
\* call c2 of the second run matches call c1 of the first
SameCall(c1, c2) ==
    /\ c1.op = c2.op
    /\ IF c1.op = "probe" /\ ~c1.res.ok
       THEN /\ c2.name = c1.name
            /\ c2.secret = c1.secret
            /\ (c2.res = c1.res \/ c2.res \in OverAvailable)
       ELSE c2 = c1

C5_SecondaryErrorAsOverLimit ==
    /\ (\E k \in 2..Len(Probes) : ~Probes[k].res.ok)
       => /\ result \in {NotReturned, OkUnit}
          /\ (pc = "exited" => exit_code = 0)
    /\ \A k \in 2..Len(Probes) :
          (~Probes[k].res.ok /\ k < Len(pppoe_ids))
          => (pc = "search" \/ Len(Probes) > k)
    /\ (run = 2 /\ pc = "exited")
       => /\ Len(calls) = Len(first.calls)
          /\ \A i \in DOMAIN calls :
                i \in DOMAIN first.calls /\ SameCall(first.calls[i], calls[i])
          /\ result = first.result
          /\ exit_code = first.exit_code

\* the first run skipped a candidate whose probe failed and switched to the
\* next; in the second run that candidate reported a usage over the limit
C5_Witness ==
    /\ run = 2
    /\ pc = "exited"
    /\ Len(Probes) = 3
    /\ ~CallsOf(first.calls, "probe")[2].res.ok
    /\ Probes[2].res \in OverAvailable
    /\ Qualifies(Probes[3])
    /\ Len(Applies) = 1
    /\ Applies[1].name = Probes[3].name

(***************************************************************************)
(* C6: when the probe of the active identity fails, run_automation returns *)
(* that error at once: no other probe, no apply_identity call and no       *)
(* notification is issued, and the process status is a failure.            *)
(***************************************************************************)
C6_ActiveProbeErrorAborts ==
    (Probes # <<>> /\ ~Probes[1].res.ok)
    => /\ Len(Probes) = 1
       /\ Applies = <<>>
       /\ Notifies = <<>>
       /\ threads = {}
       /\ shown = {}
       /\ pc \in {"stop", "exit", "exited"}
       /\ result = Probes[1].res
       /\ (pc = "exited" => exit_code # 0)

\* a finished run over several candidates whose active probe failed
C6_Witness ==
    /\ pc = "exited"
    /\ Len(pppoe_ids) = 3
    /\ Len(Probes) = 1
    /\ ~Probes[1].res.ok
    /\ exit_code = 1

(***************************************************************************)
(* C7: when the identity the inspector reports is the name of no           *)
(* candidate, the cycle issues no probe, no apply_identity call and no     *)
(* notification, run_automation returns Ok and the status is success.      *)
(***************************************************************************)
C7_UnknownIdentityNoOp ==
    (/\ Inspects # <<>>
     /\ Inspects[1].res.ok
     /\ \A i \in DOMAIN pppoe_ids : pppoe_ids[i][1] # Inspects[1].res.val)
    => /\ Probes = <<>>
       /\ Applies = <<>>
       /\ Notifies = <<>>
       /\ pc \in {"match", "stop", "exit", "exited"}
       /\ (pc # "match" => result = OkUnit)
       /\ (pc = "exited" => exit_code = 0)

\* a finished run in which the router reported an identity outside the pool
C7_Witness ==
    /\ pc = "exited"
    /\ Len(pppoe_ids) = 3
    /\ Inspects # <<>>
    /\ Inspects[1].res.ok
    /\ \A i \in DOMAIN pppoe_ids : pppoe_ids[i][1] # Inspects[1].res.val
    /\ exit_code = 0

(***************************************************************************)
(* C8.  What ended a run with an error.                                    *)
(***************************************************************************)
ChromedriverStartFailed == chromedriver_process = "none"
ParseFailed == result = Err(InvalidCredentialsFormat)
InspectFailed == Inspects # <<>> /\ ~Inspects[1].res.ok
ActiveProbeFailed == Probes # <<>> /\ ~Probes[1].res.ok

\* C8 as claimed, for the runs in which run_automation was called: the
\* status is a failure exactly when the active probe or the parsing of the
\* candidate list failed, and success also when the inspector failed
C8_AsClaimed ==
    (pc = "exited" /\ ~ChromedriverStartFailed)
    => (exit_code # 0 <=> (ActiveProbeFailed \/ ParseFailed))

\* C8 as amended: the status is a failure exactly when starting the browser
\* driver, parsing the candidate list, the inspector or the active probe
\* failed; every other run, whatever apply_identity returned, ends with 0
C8_ExitStatus ==
    pc = "exited"
    => /\ exit_code \in {0, 1}
       /\ exit_code # 0 <=> \/ ChromedriverStartFailed
                            \/ ParseFailed
                            \/ InspectFailed
                            \/ ActiveProbeFailed

\* a run that ended with a failure status because the inspector failed
C8_Witness ==
    /\ pc = "exited"
    /\ InspectFailed
    /\ ~ParseFailed
    /\ Probes = <<>>
    /\ exit_code = 1

(***************************************************************************)
(* C9: after the apply_identity call of a switch, exactly one notification *)
(* is sent, and its title tells the outcome: "WiFi ID Switched" exactly on *)
(* success, "WiFi Switch Failed" exactly on a reported failure, and        *)
(* "WiFi Switch Error" exactly on an error.                                *)
(***************************************************************************)
SwitchApplied == Applies # <<>> /\ Applies[1].name # current_running_id

C9_SwitchOutcomeNotifications ==
    SwitchApplied
    => /\ Len(Applies) = 1
       /\ pc \in {"switched", "ret", "stop", "exit", "exited"}
       /\ IF pc = "switched"
          THEN Notifies = <<>>
          ELSE /\ Len(Notifies) = 1
               /\ Notifies[1].title \in
                    {"WiFi ID Switched", "WiFi Switch Failed", "WiFi Switch Error"}
               /\ Notifies[1].title = "WiFi ID Switched"
                    <=> Applies[1].res = Ok(TRUE)
               /\ Notifies[1].title = "WiFi Switch Failed"
                    <=> Applies[1].res = Ok(FALSE)
               /\ Notifies[1].title = "WiFi Switch Error"
                    <=> ~Applies[1].res.ok

\* a finished run whose switch ended with an error
C9_Witness ==
    /\ pc = "exited"
    /\ SwitchApplied
    /\ ~Applies[1].res.ok
    /\ Len(Notifies) = 1
    /\ Notifies[1].title = "WiFi Switch Error"

(***************************************************************************)
(* C10.                                                                    *)
(***************************************************************************)
ApplyFailedWithError == Applies # <<>> /\ ~Applies[1].res.ok

\* C10 as claimed: an error of apply_identity leaves run_automation as its
\* result, with nothing done after the call
C10_AsClaimed ==
    (ApplyFailedWithError /\ result # NotReturned)
    => (result = Applies[1].res /\ Notifies = <<>>)

\* C10 as amended: an error of apply_identity is caught: one "WiFi Switch
\* Error" or "Failed to Disable PPPoE" notification follows and
\* run_automation returns Ok.  The errors run_automation returns are those
\* of the parsing, of the inspector and of the active identity's probe.
C10_ApplyErrorCaught ==
    /\ (ApplyFailedWithError /\ result # NotReturned)
       => /\ result = OkUnit
          /\ Len(Notifies) = 1
          /\ Notifies[1].title =
                IF SwitchApplied THEN "WiFi Switch Error"
                ELSE "Failed to Disable PPPoE"
    /\ (result # NotReturned /\ result # OkUnit)
       => /\ result.err \in {InvalidCredentialsFormat, InspectError, ProbeError}
          /\ result.err = InspectError => (InspectFailed /\ Probes = <<>>)
          /\ result.err = ProbeError => (ActiveProbeFailed /\ Len(Probes) = 1)
          /\ Applies = <<>>

\* a finished run whose disable call ended with an error
C10_Witness ==
    /\ pc = "exited"
    /\ ApplyFailedWithError
    /\ ~SwitchApplied
    /\ Len(Notifies) = 1
    /\ exit_code = 0

(***************************************************************************)
(* C11: a "WiFi ID Switched" or "PPPoE Connection Disabled" notification,  *)
(* whether sent, waiting in its thread or shown, comes after an            *)
(* apply_identity call of the same kind that returned Ok(true): the call   *)
(* is recorded before the notification is sent.                            *)
(***************************************************************************)
SuccessTitles == {"WiFi ID Switched", "PPPoE Connection Disabled"}

\* notifications sent, waiting in their threads, or shown
Dispatched == threads \cup shown \cup {Notifies[i] : i \in DOMAIN Notifies}

C11_SuccessNotifiedAfterApply ==
    \A n \in Dispatched :
        n.title \in SuccessTitles
        => \E i, j \in DOMAIN calls :
            /\ i < j
            /\ calls[i].op = "apply"
            /\ calls[i].res = Ok(TRUE)
            /\ (n.title = "WiFi ID Switched"
                    <=> calls[i].name # current_running_id)
            /\ calls[j].op = "notify"
            /\ calls[j] = n

\* the thread showed "WiFi ID Switched" while run_automation had not returned
C11_Witness ==
    /\ pc = "ret"
    /\ \E n \in shown : n.title = "WiFi ID Switched"
    /\ Len(Applies) = 1
    /\ Applies[1].res = Ok(TRUE)

(***************************************************************************)
(* C12: a credential list one of whose comma-separated pairs does not hold *)
(* exactly one ':' is rejected: as long as such a pair is still to be      *)
(* parsed no collaborator is called, and parsing either goes on to it or   *)
(* ends with the format error; once run_automation has returned that       *)
(* error no inspect, probe, apply or notification has happened, none       *)
(* happens later, and the status is a failure.                             *)
(***************************************************************************)
\* the iterator still has to hand out a pair (a maximal piece without ',')
\* in which the number of ':' is not one
HasMalformedPair(it) ==
    /\ ~it.finished
    /\ \E a \in 1..(Len(it.rest) + 1), b \in 0..Len(it.rest) :
        /\ a <= b + 1
        /\ (a = 1 \/ it.rest[a - 1] = ",")
        /\ (b = Len(it.rest) \/ it.rest[b + 1] = ",")
        /\ \A i \in a..b : it.rest[i] # ","
        /\ Cardinality({i \in a..b : it.rest[i] = ":"}) # 1

C12_MalformedListRejected ==
    /\ [](ParseFailed
            => /\ calls = <<>>
               /\ threads = {}
               /\ shown = {}
               /\ pc \in {"stop", "exit", "exited"}
               /\ (pc = "exited" => exit_code # 0))
    /\ [][(pc \in {"start", "parse"} /\ HasMalformedPair(split_iter))
            => /\ calls' = <<>>
               /\ \/ pc' \in {"parse", "exited"} /\ HasMalformedPair(split_iter')
                  \/ ParseFailed']_vars

\* a rejected list whose first pair was well formed and inserted, and in
\* which pairs followed the malformed one
C12_Witness ==
    /\ pc = "exited"
    /\ ParseFailed
    /\ DOMAIN pppoe_id_pass # {}
    /\ ~split_iter.finished
    /\ calls = <<>>
    /\ exit_code = 1

(***************************************************************************)
(* C13: the search issues at most Len(pppoe_ids) - 1 probes, the k-th of   *)
(* them to the candidate k places after the active identity in cyclic      *)
(* order, no two to the same candidate and none to the active identity;    *)
(* with a single candidate the search issues no probe.                     *)
(***************************************************************************)
C13_SearchProbesBounded ==
    Probes # <<>>
    => /\ Probes[1].name = current_running_id
       /\ Len(Probes) - 1 <= Len(pppoe_ids) - 1
       /\ \A k \in 2..Len(Probes) :
            /\ Probes[k].name = CyclicAfter(k - 1)[1]
            /\ Probes[k].name # current_running_id
       /\ \A j, k \in 2..Len(Probes) : j # k => Probes[j].name # Probes[k].name
       /\ (Len(pppoe_ids) = 1 => Len(Probes) = 1)

\* a single candidate over the limit: the search ended without a probe
C13_Witness ==
    /\ pc = "exited"
    /\ Len(pppoe_ids) = 1
    /\ ActiveUsageKnown
    /\ ActiveUsage > SWITCH_THRESHOLD
    /\ Len(Probes) = 1
    /\ Len(Notifies) = 1

(***************************************************************************)
(* C14: in a run the inspector is queried at most once, the active         *)
(* identity is probed at most once, apply_identity is called at most once, *)
(* at most one notification is sent, and the notification is the last      *)
(* collaborator call of the run.                                           *)
(***************************************************************************)
C14_OneDecisionNoRetry ==
    /\ Len(Inspects) <= 1
    /\ Cardinality({k \in DOMAIN Probes : Probes[k].name = current_running_id}) <= 1
    /\ Len(Applies) <= 1
    /\ Len(Notifies) <= 1
    /\ Cardinality(threads \cup shown) <= 1
    /\ (Notifies # <<>> => calls[Len(calls)].op = "notify")

\* a finished run whose switch was reported as failed and was not tried again
C14_Witness ==
    /\ pc = "exited"
    /\ Len(Applies) = 1
    /\ Applies[1].name # current_running_id
    /\ Applies[1].res = Ok(FALSE)
    /\ Len(Notifies) = 1
    /\ Notifies[1].title = "WiFi Switch Failed"

(***************************************************************************)
(* C15: the collaborator calls of a run are ordered: the inspector is      *)
(* queried first and exactly once in every run that parsed its candidate   *)
(* list, before any probe; the first probe is the active identity's and    *)
(* every later probe is a secondary one; no probe follows the              *)
(* apply_identity call; and the apply_identity call precedes the           *)
(* notification.                                                           *)
(***************************************************************************)
CallRank(c) ==
    CASE c.op = "inspect" -> 1
      [] c.op = "probe"   -> 2
      [] c.op = "apply"   -> 3
      [] c.op = "notify"  -> 4

\* the run has returned from the call of which_pppoe_id_running
InspectorQueried ==
    \/ pc \in {"match", "threshold", "search", "searched", "switched",
               "disabled", "ret"}
    \/ /\ pc \in {"stop", "exit", "exited"}
       /\ ~ChromedriverStartFailed
       /\ ~ParseFailed

C15_CallOrder ==
    /\ \A i, j \in DOMAIN calls : i < j => CallRank(calls[i]) <= CallRank(calls[j])
    /\ calls # <<>> => calls[1].op = "inspect"
    /\ Len(Inspects) <= 1
    /\ InspectorQueried => Len(Inspects) = 1
    /\ \A k \in DOMAIN Probes :
           (Probes[k].name = current_running_id) <=> (k = 1)

\* a finished run with all four kinds of call: the inspector, the active
\* probe, two secondary probes, the switch and its notification
C15_Witness ==
    /\ pc = "exited"
    /\ Len(calls) = 6
    /\ calls[1].op = "inspect"
    /\ calls[2].op = "probe" /\ calls[2].name = current_running_id
    /\ calls[3].op = "probe" /\ calls[4].op = "probe"
    /\ calls[5].op = "apply" /\ calls[5].name = calls[4].name
    /\ calls[6].op = "notify"

(***************************************************************************)
(* C16: once the disable has been applied and its outcome handled, there   *)
(* is exactly one apply_identity call and exactly one notification; the    *)
(* notification is "PPPoE Connection Disabled" exactly when the call       *)
(* returned Ok(true) and "Failed to Disable PPPoE" when it returned        *)
(* Ok(false) or an error; run_automation returns Ok(()) and the process    *)
(* exits with status 0.                                                    *)
(***************************************************************************)
DisableApplied == Applies # <<>> /\ Applies[1].name = current_running_id

C16_DisableOutcomeNotifications ==
    (DisableApplied /\ pc \in {"ret", "stop", "exit", "exited"})
    => /\ Len(Applies) = 1
       /\ Len(Notifies) = 1
       /\ Notifies[1].title \in {"PPPoE Connection Disabled",
                                 "Failed to Disable PPPoE"}
       /\ Notifies[1].title = "PPPoE Connection Disabled"
            <=> Applies[1].res = Ok(TRUE)
       /\ Notifies[1].title = "Failed to Disable PPPoE"
            <=> Applies[1].res \in {Ok(FALSE), Err(ApplyError)}
       /\ calls[Len(calls)] = Notifies[1]
       /\ pc # "ret" => result = OkUnit
       /\ pc = "exited" => exit_code = 0

\* a finished run whose disable was reported as failed by the router
C16_Witness ==
    /\ pc = "exited"
    /\ DisableApplied
    /\ Applies[1].secret = DISABLED_EXCEEDED_LIMIT
    /\ Applies[1].res = Ok(FALSE)
    /\ Len(Notifies) = 1
    /\ Notifies[1].title = "Failed to Disable PPPoE"
    /\ exit_code = 0

(***************************************************************************)
(* C17: the apply_identity call made for a switch names a candidate other  *)
(* than the active identity; that candidate was probed in this run, after  *)
(* the active identity, with a usage of at most AVAILABLE_THRESHOLD; and   *)
(* the secret passed is the one paired with that name in the candidate     *)
(* list, which is also the one its probe was given.                        *)
(***************************************************************************)
\* the apply_identity call of the branch taken when found_available_id holds
SwitchCalls == IF found_available_id THEN Applies ELSE <<>>

C17_SwitchTargetQualified ==
    \A a \in DOMAIN SwitchCalls :
       LET target == SwitchCalls[a]
       IN  /\ target.name # current_running_id
           /\ \E i \in DOMAIN pppoe_ids :
                /\ pppoe_ids[i][1] = target.name
                /\ pppoe_ids[i][2] = target.secret
           /\ \A i \in DOMAIN pppoe_ids :
                pppoe_ids[i][1] = target.name
                => pppoe_ids[i][2] = target.secret
           /\ \E k \in 2..Len(Probes) :
                /\ Probes[k].name = target.name
                /\ Probes[k].secret = target.secret
                /\ Probes[k].res.ok
                /\ Probes[k].res.val <= AVAILABLE_THRESHOLD

\* a switch to the second candidate searched, after the first one was over
\* the limit; the three candidates have three different secrets
C17_Witness ==
    /\ pc = "switched"
    /\ Len(SwitchCalls) = 1
    /\ Len(Probes) = 3
    /\ Probes[2].res.ok /\ Probes[2].res.val > AVAILABLE_THRESHOLD
    /\ SwitchCalls[1].name = Probes[3].name
    /\ SwitchCalls[1].secret # Probes[2].secret
    /\ SwitchCalls[1].secret # Probes[1].secret
    /\ Probes[1].secret # Probes[2].secret

(***************************************************************************)
(* C18: the candidate sequence holds every name at most once, with the     *)
(* secret of the last pair of the input that carried the name: a pair      *)
(* parsed into the map replaces the secret of its name and leaves every    *)
(* other entry alone, and the sequence is made of exactly the entries of   *)
(* the map.  So at most one candidate matches the name the inspector       *)
(* reported, and the matched index is that candidate's.                    *)
(***************************************************************************)
\* the positions of the candidate sequence that carry a name
Matches(name) == {i \in DOMAIN pppoe_ids : pppoe_ids[i][1] = name}

\* a step that inserted the next pair of the input into the map
PairInserted ==
    pc = "parse" /\ ~split_iter.finished /\ pc' = "parse"

\* the step that collected the map into the candidate sequence
IdsCollected == pc = "parse" /\ pc' = "inspect"

C18_NamesUnique ==
    /\ [](/\ \A name \in RouterIds : Cardinality(Matches(name)) <= 1
          /\ \A i, j \in DOMAIN pppoe_ids :
                pppoe_ids[i][1] = pppoe_ids[j][1] => i = j
          /\ pc \in {"threshold", "search", "searched", "switched", "disabled"}
                => Matches(current_running_id) = {index + 1})
    /\ [][PairInserted
            => \E name \in DOMAIN pppoe_id_pass' :
                /\ name \o <<":">> \o pppoe_id_pass'[name]
                        = Trim(SplitNextItem(split_iter))
                /\ DOMAIN pppoe_id_pass' = DOMAIN pppoe_id_pass \cup {name}
                /\ \A other \in DOMAIN pppoe_id_pass \ {name} :
                        pppoe_id_pass'[other] = pppoe_id_pass[other]]_vars
    /\ [][IdsCollected
            => /\ Len(pppoe_ids') = Cardinality(DOMAIN pppoe_id_pass)
               /\ \A name \in DOMAIN pppoe_id_pass :
                    \E i \in DOMAIN pppoe_ids' :
                        pppoe_ids'[i] = <<name, pppoe_id_pass[name]>>]_vars

\* the map holds a name whose secret the next pair of the input replaces
C18_Witness ==
    /\ pc = "parse"
    /\ ~split_iter.finished
    /\ \E name \in DOMAIN pppoe_id_pass :
        \E secret \in {<<"x">>, <<"y">>, <<"z">>, <<"w">>} :
            /\ Trim(SplitNextItem(split_iter)) = name \o <<":">> \o secret
            /\ pppoe_id_pass[name] # secret

(***************************************************************************)
(* C19: a run on another ordering of the same candidate mapping, with the  *)
(* same active identity and the same probe result for every identity,      *)
(* takes a decision of the same kind as the first run: no action, a        *)
(* switch, the disable, no identity available, or none at all when the run *)
(* was aborted.  The disable is applied to the same identity with the same *)
(* secret and the process status is the same; only the target of a switch  *)
(* may differ.                                                             *)
(***************************************************************************)
\* the kind of decision a run's recorded calls show
KindOf(log) ==
    LET inspected == CallsOf(log, "inspect")
        applied == CallsOf(log, "apply")
        notified == CallsOf(log, "notify")
    IN  IF applied # <<>>
        THEN IF applied[1].name = inspected[1].res.val
             THEN "Disable" ELSE "switch"
        ELSE IF notified = <<>> THEN "none"
        ELSE IF notified[1].title = "No WiFi IDs Available"
             THEN "NoIdentityAvailable"
        ELSE "NoAction"

C19_KindOrderIndependent ==
    (run = 3 /\ pc = "exited")
    => /\ KindOf(calls) = KindOf(first.calls)
       /\ exit_code = first.exit_code
       /\ KindOf(calls) = "Disable"
            => /\ Applies[1].name = CallsOf(first.calls, "apply")[1].name
               /\ Applies[1].secret = CallsOf(first.calls, "apply")[1].secret
       /\ KindOf(calls) \in {"NoAction", "NoIdentityAvailable"}
            => Notifies = CallsOf(first.calls, "notify")

\* both runs switched, to different identities
C19_Witness ==
    /\ run = 3
    /\ pc = "exited"
    /\ KindOf(calls) = "switch"
    /\ KindOf(first.calls) = "switch"
    /\ Applies[1].name # CallsOf(first.calls, "apply")[1].name

(***************************************************************************)
(* C20: every run ends.  The search loop makes at most                     *)
(* Len(pppoe_ids) - 1 iterations; an iteration either finds an available   *)
(* identity and leaves the loop with checked_count as it was, or adds one  *)
(* to checked_count; once the matched identity has been handled the        *)
(* matching loop is left for good; and the process exits.                  *)
(***************************************************************************)
\* the iterations of the while loop made so far
SearchIterations == checked_count + (IF found_available_id THEN 1 ELSE 0)

\* a step that is one iteration of the while loop
SearchIteration == pc = "search" /\ calls' # calls

C20_CycleTerminates ==
    /\ [](pc \in {"search", "searched", "switched", "disabled"}
            => /\ SearchIterations <= Len(pppoe_ids) - 1
               /\ SearchIterations = Len(Probes) - 1)
    /\ [][SearchIteration
            => \/ /\ found_available_id'
                  /\ pc' = "searched"
                  /\ checked_count' = checked_count
               \/ /\ ~found_available_id'
                  /\ pc' = "search"
                  /\ checked_count' = checked_count + 1]_vars
    /\ [][pc = "ret" => pc' \in {"ret", "stop"}]_vars
    /\ [][pc = "stop" => pc' \in {"stop", "exit"}]_vars
    /\ [][pc = "exit" => pc' \in {"exit", "exited"}]_vars
    /\ <>(pc = "exited")

\* a finished run whose search made all its iterations without a find
C20_Witness ==
    /\ pc = "exited"
    /\ Len(pppoe_ids) = 3
    /\ ~found_available_id
    /\ checked_count = 2
    /\ Len(Probes) = 3
    /\ ~Probes[2].res.ok

(***************************************************************************)
(* C21: a browser driver that was started is stopped exactly once: the     *)
(* only changes of chromedriver_process are the start, made before         *)
(* anything else, and one stop, made after run_automation has returned,    *)
(* with a success or an error, and before the exit status is set; the      *)
(* driver runs all through the cycle and a process that exits after a      *)
(* cycle has stopped it.  When the start fails the process exits at once:  *)
(* nothing is parsed, no collaborator is called and run_automation never   *)
(* returns a result.                                                       *)
(***************************************************************************)
\* run_automation has been called and has not returned
InCycle ==
    pc \in {"parse", "inspect", "match", "threshold", "search", "searched",
            "switched", "disabled", "ret"}

\* the steps main makes on the browser driver
DriverStarted ==
    /\ pc = "start"
    /\ chromedriver_process = "none"
    /\ chromedriver_process' = "running"
    /\ pc' = "parse"

DriverStopped ==
    /\ pc = "stop"
    /\ chromedriver_process = "running"
    /\ chromedriver_process' = "stopped"
    /\ result # NotReturned
    /\ result' = result
    /\ exit_code = -1
    /\ exit_code' = -1
    /\ pc' = "exit"

C21_DriverStoppedOnce ==
    /\ [][chromedriver_process' # chromedriver_process
            => (DriverStarted \/ DriverStopped)]_vars
    /\ [][pc = "stop" => (pc' = "stop" \/ DriverStopped)]_vars
    /\ [](InCycle => chromedriver_process = "running")
    /\ [](pc = "stop"
            => chromedriver_process = "running" /\ result # NotReturned)
    /\ [](chromedriver_process = "stopped"
            => /\ pc \in {"exit", "exited"}
               /\ result # NotReturned
               /\ (exit_code # -1 <=> pc = "exited"))
    /\ [](pc \in {"exit", "exited"}
            => chromedriver_process \in {"stopped", "none"})
    /\ []((chromedriver_process = "none" /\ pc # "start")
            => /\ pc = "exited"
               /\ exit_code = 1
               /\ result = NotReturned
               /\ calls = <<>>
               /\ pppoe_id_pass = EmptyMap
               /\ pppoe_ids = <<>>
               /\ ~split_iter.finished)

\* the process has exited with a failure after a cycle in which the probe of
\* the active identity failed, and the driver it started is stopped
C21_Witness ==
    /\ pc = "exited"
    /\ chromedriver_process = "stopped"
    /\ ActiveProbeFailed
    /\ result = Probes[1].res
    /\ exit_code = 1

====
